---- MODULE Spec2Model ----
(***************************************************************************)
(* Model of the constructor updater / constructor manager:                 *)
(*   - constructor_updater/cli.py : main, _handle_excecute, _execute       *)
(*     (process lock, dispatch of the subcommands)                         *)
(*   - constructor_manager_cli/actions.py : check_updates, update,         *)
(*     clean_all, check_updates_clean_and_launch, remove, restore          *)
(*   - constructor_manager_cli/utils/tests/test_versions.py : the inputs   *)
(*     and expected results of sort_versions and is_stable_version         *)
(* The installer backend, the sentinel store, the lock primitive and the   *)
(* version helpers are collaborators whose code is outside the modelled    *)
(* files; they are modelled from their documented contracts.               *)
(***************************************************************************)
EXTENDS Integers, Sequences, FiniteSets, TLC

VARIABLES
    envs,        \* set of environment directories present on disk (prefixes)
    sentinels,   \* set of versions that have a Sentinel artifact
    stateFile,   \* the snapshot last written by save_state_file
    lockFile,    \* the lock artifact in the base prefix
    pc,          \* CLI: position of every invocation
    cmd,         \* CLI: args.command of every invocation
    arg,         \* CLI: version part of args.package of every invocation
    lockCreated, \* CLI: the lock_created value handed to _execute
    out,         \* CLI: what the invocation wrote to standard output
    phase,       \* library caller: "idle" or "returned"
    calls,       \* library caller: number of calls made
    last,        \* library caller: the last call, its inputs, log and result
    fn,          \* version helpers: the helper applied, "none" before
    input,       \* version helpers: the argument handed to the helper
    output       \* version helpers: what the helper returned

fsvars == <<envs, sentinels, stateFile>>
clivars == <<lockFile, pc, cmd, arg, lockCreated, out>>
libvars == <<phase, calls, last>>
purevars == <<fn, input, output>>
vars == <<envs, sentinels, stateFile, lockFile, pc, cmd, arg, lockCreated,
          out, phase, calls, last, fn, input, output>>

(***************************************************************************)
(* Bounds                                                                  *)
(***************************************************************************)
NumProcs == 2
MaxCalls == 2
MaxLen == 3

Procs == 1..NumProcs

\* the exit code of a backend job: 0 is success, 1 stands for every other
\* code (the callers test the code's truth value and hand the code on)
ExitCodes == {0, 1}

(***************************************************************************)
(* Versions.  A version string is kept as its parsed components: the       *)
(* numeric release, the qualifier ("" for a final release) and the         *)
(* qualifier's number.  The empty string "" is NoVersion.                  *)
(***************************************************************************)
NoVersion == [rel |-> <<>>, q |-> "", n |-> 0]
V011 == [rel |-> <<0, 1, 1>>, q |-> "", n |-> 0]
V041dev0 == [rel |-> <<0, 4, 1>>, q |-> "dev", n |-> 0]
V041 == [rel |-> <<0, 4, 1>>, q |-> "", n |-> 0]
V041dev1 == [rel |-> <<0, 4, 1>>, q |-> "dev", n |-> 1]
V041a1 == [rel |-> <<0, 4, 1>>, q |-> "a", n |-> 1]

Versions == {V011, V041dev0, V041}

\* the versions of test_sort_versions
TestVersions == {V041, V041dev1, V011, V041dev0, V041a1}

PackageName == "napari"

\* rank of a qualifier under package-version ordering: dev < a < b < rc < final;
\* any other qualifier is below a final release too
QualRank(q) ==
    CASE q = "dev" -> 0
      [] q \in {"a", "alpha"} -> 1
      [] q \in {"b", "beta"} -> 2
      [] q = "rc" -> 3
      [] q = "" -> 4
      [] OTHER -> 0

RECURSIVE RelLess(_, _)
RelLess(a, b) ==
    IF a = <<>> /\ b = <<>> THEN FALSE
    ELSE LET x == IF a = <<>> THEN 0 ELSE Head(a)
             y == IF b = <<>> THEN 0 ELSE Head(b)
         IN  IF x # y THEN x < y
             ELSE RelLess(IF a = <<>> THEN a ELSE Tail(a),
                          IF b = <<>> THEN b ELSE Tail(b))

RelEq(a, b) == ~RelLess(a, b) /\ ~RelLess(b, a)

\* parse_version(a) < parse_version(b); the empty string parses to a legacy
\* version, which sorts before every release
VersionLess(a, b) ==
    IF a = NoVersion \/ b = NoVersion THEN a = NoVersion /\ b # NoVersion
    ELSE \/ RelLess(a.rel, b.rel)
         \/ /\ RelEq(a.rel, b.rel)
            /\ \/ QualRank(a.q) < QualRank(b.q)
               \/ QualRank(a.q) = QualRank(b.q) /\ a.n < b.n

is_stable_version(v) == v.q = ""

RECURSIVE SortSet(_)
SortSet(S) ==
    IF S = {} THEN <<>>
    ELSE LET m == CHOOSE x \in S : \A y \in S \ {x} : VersionLess(x, y)
         IN  <<m>> \o SortSet(S \ {m})

Range(s) == {s[i] : i \in 1..Len(s)}

\* v put into an ascending list, behind the elements it does not precede
RECURSIVE Insert(_, _)
Insert(sorted, v) ==
    IF sorted = <<>> THEN <<v>>
    ELSE IF VersionLess(v, Head(sorted)) THEN <<v>> \o sorted
         ELSE <<Head(sorted)>> \o Insert(Tail(sorted), v)

RECURSIVE SortInto(_, _)
SortInto(sorted, versions) ==
    IF versions = <<>> THEN sorted
    ELSE SortInto(Insert(sorted, Head(versions)), Tail(versions))

\* variant: the versions are made unique before they are sorted
sort_versions_unique(versions) == SortSet(Range(versions))

\* sort_versions: the list sorted ascending, key parse_version
sort_versions(versions) == SortInto(<<>>, versions)

RECURSIVE Reverse(_)
Reverse(s) == IF s = <<>> THEN <<>> ELSE Append(Reverse(Tail(s)), Head(s))

\* what conda_package_versions can return: a list of versions in the order the
\* channel happens to give (here newest first), or no answer at all
Unavailable == <<NoVersion>>
Catalogs == {Reverse(SortSet(S)) : S \in SUBSET Versions}

(***************************************************************************)
(* Written forms of a version.  A string is the sequence of its            *)
(* characters; a tuple is the sequence of its components, each a string.   *)
(***************************************************************************)
DigitChars == <<"0", "1", "2", "3", "4", "5", "6", "7", "8", "9">>

IsDigit(c) == \E i \in 1..Len(DigitChars) : DigitChars[i] = c
DigitValue(c) == (CHOOSE i \in 1..Len(DigitChars) : DigitChars[i] = c) - 1

IsNumeric(part) == part # <<>> /\ \A i \in 1..Len(part) : IsDigit(part[i])

\* int(part) of a numeric part
RECURSIVE NumberOf(_)
NumberOf(part) ==
    IF part = <<>> THEN 0
    ELSE 10 * NumberOf(SubSeq(part, 1, Len(part) - 1)) + DigitValue(part[Len(part)])

\* string.split(".")
RECURSIVE SplitDots(_)
SplitDots(chars) ==
    IF \A i \in 1..Len(chars) : chars[i] # "." THEN <<chars>>
    ELSE LET k == CHOOSE i \in 1..Len(chars) :
                     chars[i] = "." /\ \A j \in 1..(i - 1) : chars[j] # "."
         IN  <<SubSeq(chars, 1, k - 1)>> \o SplitDots(SubSeq(chars, k + 1, Len(chars)))

\* the strings and tuples of test_is_stable_version
S04 == <<"0", ".", "4">>
S0415 == <<"0", ".", "4", ".", "1", "5">>
S0415rc1 == S0415 \o <<"r", "c", "1">>
S0415dev0 == S0415 \o <<"d", "e", "v", "0">>
S0415beta == S0415 \o <<"b", "e", "t", "a">>
S0415alfa == S0415 \o <<"a", "l", "f", "a">>
T04 == << <<"0">>, <<"4">> >>
T0415 == T04 \o << <<"1", "5">> >>
T0415rc1 == T0415 \o << <<"r", "c", "1">> >>
T0415beta == T0415 \o << <<"b", "e", "t", "a">> >>

Str(chars) == [kind |-> "str", chars |-> chars]
Tuple(parts) == [kind |-> "tuple", parts |-> parts]

\* the qualifier words the tests use, as written and as named in a parsed version
QualifierWords ==
    {[chars |-> <<"r", "c">>, q |-> "rc"], [chars |-> <<"d", "e", "v">>, q |-> "dev"],
     [chars |-> <<"b", "e", "t", "a">>, q |-> "beta"],
     [chars |-> <<"a", "l", "f", "a">>, q |-> "alfa"], [chars |-> <<"a">>, q |-> "a"]}

\* the length of the longest prefix of part made of digits
RECURSIVE LeadingDigits(_)
LeadingDigits(part) ==
    IF part = <<>> \/ ~IsDigit(Head(part)) THEN 0 ELSE 1 + LeadingDigits(Tail(part))

\* the length of the longest prefix of part made of no digit
RECURSIVE LeadingLetters(_)
LeadingLetters(part) ==
    IF part = <<>> \/ IsDigit(Head(part)) THEN 0 ELSE 1 + LeadingLetters(Tail(part))

\* parse_version of a version string: the numeric release, the qualifier that
\* follows the last numeric component and the qualifier's number
parse_version(chars) ==
    LET parts == SplitDots(chars)
        tail == parts[Len(parts)]
        d == LeadingDigits(tail)
        rest == SubSeq(tail, d + 1, Len(tail))
        l == LeadingLetters(rest)
        word == SubSeq(rest, 1, l)
        number == SubSeq(rest, l + 1, Len(rest))
    IN  [rel |-> [i \in 1..Len(parts) |->
                     NumberOf(IF i = Len(parts) THEN SubSeq(tail, 1, d) ELSE parts[i])],
         q |-> IF word = <<>> THEN ""
               ELSE (CHOOSE e \in QualifierWords : e.chars = word).q,
         n |-> NumberOf(number)]

\* variant: only the first component is looked at
is_stable_version_first_part(version) ==
    LET parts == IF version.kind = "tuple" THEN version.parts ELSE SplitDots(version.chars)
    IN  IsNumeric(parts[1])

\* is_stable_version of a written version, a string or a tuple of components:
\* true when every component is numeric
is_stable_version_written(version) ==
    LET parts == IF version.kind = "tuple" THEN version.parts ELSE SplitDots(version.chars)
    IN  \A i \in 1..Len(parts) : IsNumeric(parts[i])

(***************************************************************************)
(* The filesystem and the collaborators of actions.py                      *)
(***************************************************************************)
\* get_prefix_by_name(f"{package_name}-{version}")
get_prefix_by_name(version) == [version |-> version, suffix |-> ""]

\* prefix + "-broken"
BrokenName(prefix) == [prefix EXCEPT !.suffix = "-broken"]

NoSnapshot == [saved |-> FALSE, packages |-> <<>>, dev |-> FALSE, plugins |-> {}]

\* the world an action works on: the filesystem plus the log of the calls
\* it has issued so far
World == [envs |-> envs, sentinels |-> sentinels, stateFile |-> stateFile,
          log |-> <<>>]

Entry(op, prefix, pkgs, rc) == [op |-> op, prefix |-> prefix, pkgs |-> pkgs, rc |-> rc]

\* CondaInstaller.create: the environment exists at the prefix once it was
\* attempted; the exit code is the backend's
installer_create(w, pkgs, prefix, rc) ==
    [w EXCEPT !.envs = @ \cup {prefix},
              !.log = Append(@, Entry("create", prefix, pkgs, rc))]

\* CondaInstaller.install
installer_install(w, pkgs, prefix, rc) ==
    [w EXCEPT !.log = Append(@, Entry("install", prefix, pkgs, rc))]

\* CondaInstaller.remove: exit code 0 removes the directory; a failed
\* removal may or may not leave it behind
installer_remove(w, prefix, rc, remains) ==
    [w EXCEPT !.envs = IF rc = 0 \/ ~remains THEN @ \ {prefix} ELSE @,
              !.log = Append(@, Entry("remove", prefix, <<>>, rc))]

\* CondaInstaller.list
installer_list(w, prefix) ==
    [w EXCEPT !.log = Append(@, Entry("list", prefix, <<>>, 0))]

create_sentinel_file(w, version) ==
    [w EXCEPT !.sentinels = @ \cup {version},
              !.log = Append(@, Entry("create_sentinel", get_prefix_by_name(version), <<>>, 0))]

remove_sentinel_file(w, version) ==
    [w EXCEPT !.sentinels = @ \ {version},
              !.log = Append(@, Entry("remove_sentinel", get_prefix_by_name(version), <<>>, 0))]

save_state_file(w, packages, dev, available_plugins) ==
    [w EXCEPT !.stateFile = [saved |-> TRUE, packages |-> packages, dev |-> dev,
                             plugins |-> available_plugins],
              !.log = Append(@, Entry("save_state", get_prefix_by_name(NoVersion), packages, 0))]

\* os.rename(prefix, broken_prefix)
os_rename(w, src, dst) ==
    [w EXCEPT !.envs = (@ \ {src}) \cup {dst},
              !.log = Append(@, Entry("rename", src, <<>>, 0))]

\* os.rename(prefix, broken_prefix) raising: the destination is a directory
\* that is there already, or the source is gone
os_rename_raises(w, src) ==
    [w EXCEPT !.log = Append(@, Entry("rename", src, <<>>, 1))]

\* shutil.rmtree(path)
shutil_rmtree(w, path) ==
    [w EXCEPT !.envs = @ \ {path},
              !.log = Append(@, Entry("rmtree", path, <<>>, 0))]

\* shutil.rmtree(path) raising: the path is not there, or cannot be deleted
shutil_rmtree_raises(w, path) ==
    [w EXCEPT !.log = Append(@, Entry("rmtree", path, <<>>, 1))]

\* get_installed_versions: the versions recorded as installed by a Sentinel
get_installed_versions(sents) == SortSet(sents)

\* get_broken_envs: environments whose Sentinel is absent, or whose prefix
\* carries the quarantine suffix
get_broken_envs(w) ==
    {e \in w.envs : e.suffix = "-broken" \/ e.version \notin w.sentinels}

(***************************************************************************)
(* actions.py                                                              *)
(***************************************************************************)
NoDict == [available_versions |-> <<>>, current_version |-> NoVersion,
           latest_version |-> NoVersion, previous_version |-> NoVersion,
           found_versions |-> <<>>, update |-> FALSE, installed |-> FALSE]

IndexOf(s, x) == CHOOSE i \in 1..Len(s) : s[i] = x /\ \A j \in 1..(i - 1) : s[j] # x

\* variant: the list is handed on unfiltered
filter_versions_none(dev, versions) == versions

\* check_updates: if not dev: versions = list(filter(is_stable_version, versions))
filter_versions(dev, versions) ==
    IF ~dev THEN SelectSeq(versions, is_stable_version) ELSE versions

\* variant: the first element is taken
latest_of_first(versions) ==
    IF Len(versions) > 0 THEN versions[1] ELSE NoVersion

\* check_updates: latest_version = versions[-1] if versions else ""
latest_of(versions) ==
    IF Len(versions) > 0 THEN versions[Len(versions)] ELSE NoVersion

check_updates(current_version, dev, catalog, sents) ==
    IF catalog = Unavailable THEN [raised |-> TRUE, d |-> NoDict]
    ELSE
    LET sorted == sort_versions(catalog)
        versions == filter_versions(dev, sorted)
        latest_version == latest_of(versions)
        installed_versions == get_installed_versions(sents)
        update_ == VersionLess(current_version, latest_version)
        index == IndexOf(versions, current_version)
        \* filtered_version[index - 1]: index 0 wraps around to the last element
        previous_version ==
            IF current_version \in Range(versions)
            THEN (IF index = 1 THEN versions[Len(versions)] ELSE versions[index - 1])
            ELSE NoVersion
    IN  [raised |-> FALSE,
         d |-> [available_versions |-> versions,
                current_version |-> current_version,
                latest_version |-> latest_version,
                previous_version |-> previous_version,
                found_versions |-> installed_versions,
                update |-> update_,
                installed |-> latest_version \in Range(installed_versions)]]

\* variant: the call marks the latest version as installed, as update does
check_updates_call_marking(w, current_version, dev, catalog) ==
    LET res == check_updates(current_version, dev, catalog, w.sentinels)
    IN  IF res.raised THEN [w |-> w, raised |-> TRUE, result |-> [kind |-> "None", code |-> 0, d |-> NoDict]]
        ELSE [w |-> create_sentinel_file(w, res.d.latest_version), raised |-> FALSE,
              result |-> [kind |-> "dict", code |-> 0, d |-> res.d]]

\* a call of check_updates as its caller sees it: the result, or the error,
\* and the filesystem it leaves
check_updates_call(w, current_version, dev, catalog) ==
    LET res == check_updates(current_version, dev, catalog, w.sentinels)
    IN  IF res.raised THEN [w |-> w, raised |-> TRUE, result |-> [kind |-> "None", code |-> 0, d |-> NoDict]]
        ELSE [w |-> w, raised |-> FALSE, result |-> [kind |-> "dict", code |-> 0, d |-> res.d]]

create_with_plugins(w, version, plugins, rc) ==
    [w |-> installer_create(w, <<PackageName>> \o plugins, get_prefix_by_name(version), rc),
     rc |-> rc]

\* variant: the loop over the plugins stops at the first install that fails
RECURSIVE InstallEachUntilFailure(_, _, _, _)
InstallEachUntilFailure(w, plugins, prefix, rcs) ==
    IF plugins = <<>> THEN w
    ELSE LET w1 == installer_install(w, <<Head(plugins)>>, prefix, Head(rcs))
         IN  IF Head(rcs) # 0 THEN w1
             ELSE InstallEachUntilFailure(w1, Tail(plugins), prefix, Tail(rcs))

RECURSIVE InstallEach(_, _, _, _)
InstallEach(w, plugins, prefix, rcs) ==
    IF plugins = <<>> THEN w
    ELSE InstallEach(installer_install(w, <<Head(plugins)>>, prefix, Head(rcs)),
                     Tail(plugins), prefix, Tail(rcs))

\* variant: the exit code returned is the one of the last job issued
create_with_plugins_one_by_one_last_job(w, version, plugins, rc, rcs) ==
    LET prefix == get_prefix_by_name(version)
        w1 == installer_create(w, <<PackageName>>, prefix, rc)
    IN  [w |-> InstallEach(w1, plugins, prefix, rcs),
         rc |-> IF rcs = <<>> THEN rc ELSE rcs[Len(rcs)]]

\* variant: the fallback clears the prefix before it creates the environment
create_with_plugins_one_by_one_fresh(w, version, plugins, rc, rcs) ==
    LET prefix == get_prefix_by_name(version)
        w0 == installer_remove(w, prefix, 0, FALSE)
        w1 == installer_create(w0, <<PackageName>>, prefix, rc)
    IN  [w |-> InstallEach(w1, plugins, prefix, rcs), rc |-> rc]

create_with_plugins_one_by_one(w, version, plugins, rc, rcs) ==
    LET prefix == get_prefix_by_name(version)
        w1 == installer_create(w, <<PackageName>>, prefix, rc)
    IN  [w |-> InstallEach(w1, plugins, prefix, rcs), rc |-> rc]

ResNone == [kind |-> "None", code |-> 0, d |-> NoDict]
ResInt(c) == [kind |-> "int", code |-> c, d |-> NoDict]

Returns(w, result) == [w |-> w, raised |-> FALSE, result |-> result]
Raises(w) == [w |-> w, raised |-> TRUE, result |-> ResNone]

FilterPlugins(packages, available_plugins) ==
    SelectSeq(packages, LAMBDA name : name \in available_plugins)

\* variant: the Sentinel is written whatever the exit code
update_finalize_always(w, return_code, latest_version) ==
    create_sentinel_file(w, latest_version)

\* variant: on success the Sentinel of latest_version replaces the others
update_finalize_replacing(w, return_code, latest_version) ==
    IF return_code = 0
    THEN [create_sentinel_file(w, latest_version) EXCEPT !.sentinels = {latest_version}]
    ELSE w

\* update: if not bool(return_code): create_sentinel_file(...)
update_finalize(w, return_code, latest_version) ==
    IF return_code = 0 THEN create_sentinel_file(w, latest_version) ELSE w

\* variant: the snapshot is saved once the environment has been created
update_snapshot_last(w, current_version, dev, catalog, packages, available_plugins, rcAtomic, rcPinned, rcPlugins) ==
    LET data == check_updates(current_version, dev, catalog, w.sentinels)
        latest_version == data.d.latest_version
        w1 == installer_list(w, get_prefix_by_name(current_version))
        filtered_packages == FilterPlugins(packages, available_plugins)
        first == create_with_plugins(w1, latest_version, filtered_packages, rcAtomic)
        final == IF first.rc # 0
                 THEN create_with_plugins_one_by_one(first.w, latest_version,
                          filtered_packages, rcPinned, rcPlugins)
                 ELSE first
        w4 == save_state_file(final.w, packages, dev, available_plugins)
        w5 == update_finalize(w4, final.rc, latest_version)
    IN  IF data.raised THEN Raises(w) ELSE Returns(w5, ResNone)

\* variant: the versions are resolved after the snapshot has been saved
update_resolve_late(w, current_version, dev, catalog, packages, available_plugins, rcAtomic, rcPinned, rcPlugins) ==
    LET w1 == installer_list(w, get_prefix_by_name(current_version))
        w2 == save_state_file(w1, packages, dev, available_plugins)
        data == check_updates(current_version, dev, catalog, w.sentinels)
        latest_version == data.d.latest_version
        filtered_packages == FilterPlugins(packages, available_plugins)
        first == create_with_plugins(w2, latest_version, filtered_packages, rcAtomic)
        final == IF first.rc # 0
                 THEN create_with_plugins_one_by_one(first.w, latest_version,
                          filtered_packages, rcPinned, rcPlugins)
                 ELSE first
        w5 == update_finalize(final.w, final.rc, latest_version)
    IN  IF data.raised THEN Raises(w2) ELSE Returns(w5, ResNone)

update(w, current_version, dev, catalog, packages, available_plugins, rcAtomic, rcPinned, rcPlugins) ==
    LET data == check_updates(current_version, dev, catalog, w.sentinels)
        latest_version == data.d.latest_version
        w1 == installer_list(w, get_prefix_by_name(current_version))
        w2 == save_state_file(w1, packages, dev, available_plugins)
        filtered_packages == FilterPlugins(packages, available_plugins)
        first == create_with_plugins(w2, latest_version, filtered_packages, rcAtomic)
        final == IF first.rc # 0
                 THEN create_with_plugins_one_by_one(first.w, latest_version,
                          filtered_packages, rcPinned, rcPlugins)
                 ELSE first
        w5 == update_finalize(final.w, final.rc, latest_version)
    IN  IF data.raised THEN Raises(w) ELSE Returns(w5, ResNone)

\* a job handle of the installer: None is 0, every handle the installer hands
\* out is a non-empty opaque value
None == 0
JobId(k) == k
Truthy(x) == x # None

RemoveOutcomes ==
    {o \in [rc : ExitCodes, remains : BOOLEAN] : o.rc = 0 => ~o.remains}

PrefixLess(a, b) ==
    \/ VersionLess(a.version, b.version)
    \/ a.version = b.version /\ a.suffix = "" /\ b.suffix = "-broken"

RECURSIVE SortPrefixes(_)
SortPrefixes(S) ==
    IF S = {} THEN <<>>
    ELSE LET m == CHOOSE x \in S : \A y \in S \ {x} : PrefixLess(x, y)
         IN  <<m>> \o SortPrefixes(S \ {m})

\* variant: an environment the backend failed to remove is deleted directly
RECURSIVE RemoveEachForced(_, _, _)
RemoveEachForced(w, prefixes, outcome) ==
    IF prefixes = <<>> THEN w
    ELSE LET prefix == Head(prefixes)
             w1 == installer_remove(w, prefix, outcome[prefix].rc, outcome[prefix].remains)
             w2 == IF outcome[prefix].rc # 0 THEN shutil_rmtree(w1, prefix) ELSE w1
         IN  RemoveEachForced(w2, Tail(prefixes), outcome)

RECURSIVE RemoveEach(_, _, _)
RemoveEach(w, prefixes, outcome) ==
    IF prefixes = <<>> THEN w
    ELSE LET prefix == Head(prefixes)
         IN  RemoveEach(installer_remove(w, prefix, outcome[prefix].rc,
                                         outcome[prefix].remains),
                        Tail(prefixes), outcome)

\* outcome: the backend's answer for each broken environment
clean_all(w, outcome) ==
    LET broken == SortPrefixes(get_broken_envs(w))
        w1 == RemoveEach(w, broken, outcome)
        failed == SelectSeq(broken, LAMBDA prefix : outcome[prefix].rc # 0)
    IN  Returns(w1, ResNone)

\* variant: the Sentinel of every found version is removed
RECURSIVE RemoveSentinelsOfAll(_, _, _)
RemoveSentinelsOfAll(w, found_versions, latest_version) ==
    IF found_versions = <<>> THEN w
    ELSE RemoveSentinelsOfAll(remove_sentinel_file(w, Head(found_versions)),
                              Tail(found_versions), latest_version)

\* check_updates_clean_and_launch: the loop over found_versions
RECURSIVE RemoveSentinels(_, _, _)
RemoveSentinels(w, found_versions, latest_version) ==
    IF found_versions = <<>> THEN w
    ELSE LET version == Head(found_versions)
             w1 == IF version # latest_version THEN remove_sentinel_file(w, version)
                   ELSE w
         IN  RemoveSentinels(w1, Tail(found_versions), latest_version)

\* the world of check_updates_clean_and_launch when it reaches clean_all
BeforeClean(w, dev, catalog) ==
    LET res == check_updates(NoVersion, dev, catalog, w.sentinels)
    IN  IF ~res.raised /\ res.d.installed
        THEN RemoveSentinels(w, res.d.found_versions, res.d.latest_version)
        ELSE w

\* variant: clean_all is invoked whether or not the latest version is installed
check_updates_clean_and_launch_always(w, dev, catalog, outcome) ==
    LET res == check_updates(NoVersion, dev, catalog, w.sentinels)
    IN  IF res.raised THEN Raises(w)
        ELSE clean_all(BeforeClean(w, dev, catalog), outcome)

check_updates_clean_and_launch(w, dev, catalog, outcome) ==
    LET res == check_updates(NoVersion, dev, catalog, w.sentinels)
    IN  IF res.raised THEN Raises(w)
        ELSE IF res.d.installed
             THEN clean_all(BeforeClean(w, dev, catalog), outcome)
             ELSE Returns(w, ResNone)

remove(w, version, rc, remains, rmtreeOk) ==
    LET prefix == get_prefix_by_name(version)
        job_id == JobId(1)
        w1 == installer_remove(w, prefix, rc, remains)
    IN  IF Truthy(job_id)
        THEN (IF prefix \in w1.envs /\ rmtreeOk
              THEN Returns(shutil_rmtree(w1, prefix), ResNone)
              ELSE Raises(shutil_rmtree_raises(w1, prefix)))
        ELSE Returns(w1, ResNone)

\* variant: the rename does not look whether the directory is still there
restore_rename_unchecked(w, current_version, rcRemove, remains, rcCreate, rmtreeOk) ==
    LET prefix == get_prefix_by_name(current_version)
        existed == prefix \in w.envs
        job_id_remove == IF existed THEN JobId(1) ELSE None
        w1 == IF existed THEN installer_remove(w, prefix, rcRemove, remains) ELSE w
        quarantine == Truthy(job_id_remove)
        broken_prefix == BrokenName(prefix)
        w2 == IF quarantine THEN os_rename(w1, prefix, broken_prefix) ELSE w1
        w3 == installer_create(w2, <<PackageName>>, prefix, rcCreate)
        delete == quarantine /\ Truthy(job_id_remove) /\ broken_prefix \in w3.envs
    IN  IF quarantine /\ (broken_prefix \in w1.envs \/ prefix \notin w1.envs)
        THEN Raises(os_rename_raises(w1, prefix))
        ELSE IF delete
             THEN (IF rmtreeOk THEN Returns(shutil_rmtree(w3, broken_prefix), ResInt(rcCreate))
                   ELSE Raises(shutil_rmtree_raises(w3, broken_prefix)))
             ELSE Returns(w3, ResInt(rcCreate))

restore(w, current_version, rcRemove, remains, rcCreate, rmtreeOk) ==
    LET prefix == get_prefix_by_name(current_version)
        existed == prefix \in w.envs
        job_id_remove == IF existed THEN JobId(1) ELSE None
        w1 == IF existed THEN installer_remove(w, prefix, rcRemove, remains) ELSE w
        quarantine == Truthy(job_id_remove) /\ prefix \in w1.envs
        broken_prefix == BrokenName(prefix)
        w2 == IF quarantine THEN os_rename(w1, prefix, broken_prefix) ELSE w1
        w3 == installer_create(w2, <<PackageName>>, prefix, rcCreate)
        delete == quarantine /\ Truthy(job_id_remove) /\ broken_prefix \in w3.envs
    IN  IF quarantine /\ broken_prefix \in w1.envs
        THEN Raises(os_rename_raises(w1, prefix))
        ELSE IF delete
             THEN (IF rmtreeOk THEN Returns(shutil_rmtree(w3, broken_prefix), ResInt(rcCreate))
                   ELSE Raises(shutil_rmtree_raises(w3, broken_prefix)))
             ELSE Returns(w3, ResInt(rcCreate))

(***************************************************************************)
(* The lock artifact <base prefix>/constructor-updater.lock                *)
(***************************************************************************)
\* kind: "absent", "held" (names a live process), "stale" (names a process
\* that has exited), "corrupt_link" (a link lock() cannot read) or
\* "corrupt_file" (something that is neither a link nor a lock)
LockAbsent == [kind |-> "absent", proc |-> 0]
LockHeld(p) == [kind |-> "held", proc |-> p]
LockStale(p) == [kind |-> "stale", proc |-> p]
LockCorrupt(kind) == [kind |-> kind, proc |-> 0]

\* FilesystemLock.lock(): "True" when this call acquired the lock, "False"
\* when another live process holds it, "raise" on an unusable artifact
lock_result(lf) ==
    CASE lf.kind \in {"absent", "stale"} -> "True"
      [] lf.kind = "held" -> "False"
      [] OTHER -> "raise"

\* os.path.islink(lock_file): the lock is a link naming its holder
islink(lf) == lf.kind \in {"held", "stale", "corrupt_link"}

\* the artifact once process p has exited: a lock it still held names a dead
\* process from then on
AfterExit(p, lf) == IF lf = LockHeld(p) THEN LockStale(p) ELSE lf

(***************************************************************************)
(* A caller of the library: one call of actions.py at a time, each call    *)
(* with the inputs and the backend answers it meets.                       *)
(***************************************************************************)
PackageLists == {<<"plugA", "numpy", "plugB">>}
PluginCatalogs == {{}, {"plugA", "plugB"}}

NoCall == [op |-> "none", version |-> NoVersion, dev |-> FALSE, catalog |-> <<>>,
           packages |-> <<>>, plugins |-> {}, remains |-> FALSE,
           rcAtomic |-> 0, rcPinned |-> 0, rcPlugins |-> <<>>, rcCreate |-> 0,
           preEnvs |-> {}, preSentinels |-> {}, preState |-> NoSnapshot,
           log |-> <<>>, raised |-> FALSE, result |-> ResNone]

ThisCall(op, version, dev, catalog) ==
    [NoCall EXCEPT !.op = op, !.version = version, !.dev = dev, !.catalog = catalog,
                   !.preEnvs = envs, !.preSentinels = sentinels, !.preState = stateFile]

\* the call returns (or raises) with outcome o
Finish(call, o) ==
    /\ envs' = o.w.envs
    /\ sentinels' = o.w.sentinels
    /\ stateFile' = o.w.stateFile
    /\ last' = [call EXCEPT !.log = o.w.log, !.raised = o.raised, !.result = o.result]
    /\ phase' = "returned"
    /\ calls' = calls + 1
    /\ UNCHANGED <<clivars, purevars>>

CanCall == phase = "idle" /\ calls < MaxCalls

CallCheckUpdates ==
    /\ CanCall
    /\ \E v \in Versions, dev \in BOOLEAN, catalog \in Catalogs \cup {Unavailable} :
         LET o == check_updates_call(World, v, dev, catalog)
         IN  Finish(ThisCall("check_updates", v, dev, catalog), o)

CallUpdate ==
    /\ CanCall
    /\ \E v \in Versions, dev \in BOOLEAN, catalog \in Catalogs \cup {Unavailable},
          packages \in PackageLists, available_plugins \in PluginCatalogs,
          rcAtomic \in ExitCodes :
         LET n == Len(FilterPlugins(packages, available_plugins))
         IN  \E rcPinned \in (IF rcAtomic # 0 THEN ExitCodes ELSE {0}),
                rcPlugins \in (IF rcAtomic # 0 THEN [1..n -> ExitCodes] ELSE {<<>>}) :
               Finish([ThisCall("update", v, dev, catalog) EXCEPT
                          !.packages = packages, !.plugins = available_plugins,
                          !.rcAtomic = rcAtomic, !.rcPinned = rcPinned,
                          !.rcPlugins = rcPlugins],
                      update(World, v, dev, catalog, packages, available_plugins,
                             rcAtomic, rcPinned, rcPlugins))

CallCleanAll ==
    /\ CanCall
    /\ \E outcome \in [get_broken_envs(World) -> RemoveOutcomes] :
         Finish(ThisCall("clean_all", NoVersion, FALSE, <<>>), clean_all(World, outcome))

CallCheckUpdatesCleanAndLaunch ==
    /\ CanCall
    /\ \E dev \in BOOLEAN, catalog \in Catalogs \cup {Unavailable} :
         \E outcome \in [get_broken_envs(BeforeClean(World, dev, catalog)) -> RemoveOutcomes] :
           Finish(ThisCall("check_updates_clean_and_launch", NoVersion, dev, catalog),
                  check_updates_clean_and_launch(World, dev, catalog, outcome))

CallRemove ==
    /\ CanCall
    /\ \E v \in Versions, o \in RemoveOutcomes, rmtreeOk \in BOOLEAN :
         Finish([ThisCall("remove", v, FALSE, <<>>) EXCEPT !.remains = o.remains],
                remove(World, v, o.rc, o.remains, rmtreeOk))

CallRestore ==
    /\ CanCall
    /\ \E v \in Versions, o \in RemoveOutcomes, rcCreate \in ExitCodes, rmtreeOk \in BOOLEAN :
         Finish([ThisCall("restore", v, FALSE, <<>>) EXCEPT
                    !.rcCreate = rcCreate, !.remains = o.remains],
                restore(World, v, o.rc, o.remains, rcCreate, rmtreeOk))

\* the caller takes the result and is ready for its next call
Return ==
    /\ phase = "returned"
    /\ phase' = "idle"
    /\ last' = NoCall
    /\ UNCHANGED <<calls, fsvars, clivars, purevars>>

InitFs ==
    \E installed \in SUBSET Versions :
        /\ envs = {get_prefix_by_name(v) : v \in installed}
        /\ sentinels = installed
        /\ stateFile = NoSnapshot

InitCliIdle ==
    /\ lockFile = LockAbsent
    /\ pc = [p \in Procs |-> "idle"]
    /\ cmd = [p \in Procs |-> "none"]
    /\ arg = [p \in Procs |-> NoVersion]
    /\ lockCreated = [p \in Procs |-> "None"]
    /\ out = [p \in Procs |-> <<>>]

InitLibIdle ==
    /\ phase = "idle"
    /\ calls = 0
    /\ last = NoCall

\* no version helper applied
NoInput == [kind |-> "none"]
NoOutput == [kind |-> "none"]

InitPureIdle ==
    /\ fn = "none"
    /\ input = NoInput
    /\ output = NoOutput

InitActions == InitFs /\ InitCliIdle /\ InitLibIdle /\ InitPureIdle

NextActions ==
    \/ CallCheckUpdates
    \/ CallUpdate
    \/ CallCleanAll
    \/ CallCheckUpdatesCleanAndLaunch
    \/ CallRemove
    \/ CallRestore
    \/ Return

SpecActions == InitActions /\ [][NextActions]_vars

(***************************************************************************)
(* cli.py: invocations of the command line, each its own process           *)
(***************************************************************************)
\* the subcommands; "clean-lock" runs through the very branch of _execute
\* that "clean" runs through and is left out
Commands == {"check-updates", "update", "restore", "check-launch-clean", "clean"}
CliVersions == {V041}
CliCatalogs == {Reverse(SortSet(Versions)), Unavailable}

Terminal == {"done", "already_running", "crashed"}
LockedSection == {"running", "sleep"}

Line(text) == [text |-> text, d |-> NoDict]
Payload(d) == [text |-> "JSON", d |-> d]

\* a new invocation: argparse has filled args
Start(p) ==
    /\ pc[p] \in Terminal \cup {"idle"}
    /\ \E c \in Commands, v \in CliVersions :
         /\ cmd' = [cmd EXCEPT ![p] = c]
         /\ arg' = [arg EXCEPT ![p] = v]
    /\ pc' = [pc EXCEPT ![p] = "main"]
    /\ lockCreated' = [lockCreated EXCEPT ![p] = "None"]
    /\ out' = [out EXCEPT ![p] = <<>>]
    /\ UNCHANGED <<lockFile, fsvars, libvars, purevars>>

\* main: lock_created = lock.lock()
Lock(p) ==
    /\ pc[p] = "main"
    /\ LET r == lock_result(lockFile)
       IN  /\ lockFile' = IF r = "True" THEN LockHeld(p) ELSE lockFile
           /\ lockCreated' = [lockCreated EXCEPT ![p] = IF r = "raise" THEN "None" ELSE r]
           /\ pc' = [pc EXCEPT ![p] = IF r = "raise" THEN "recover" ELSE "execute"]
    /\ UNCHANGED <<cmd, arg, out, fsvars, libvars, purevars>>

\* main: the except branch removes a possibly stale lock file, then runs
\* _handle_excecute(args, lock) without lock_created
Recover(p) ==
    /\ pc[p] = "recover"
    /\ lockFile' = IF islink(lockFile) THEN LockAbsent ELSE lockFile
    /\ pc' = [pc EXCEPT ![p] = "execute"]
    /\ UNCHANGED <<cmd, arg, lockCreated, out, fsvars, libvars, purevars>>

\* the process ends at position t
Exit(p, t) ==
    /\ pc' = [pc EXCEPT ![p] = t]
    /\ lockFile' = AfterExit(p, lockFile)

\* variant: the branch is taken whenever lock() gave an answer at all
lock_created_not_none(lc) == lc # "None"

\* _execute: if lock_created:
lock_created_truthy(lc) == lc = "True"

\* variant: no command is exempt from the check of lock_created
can_run_in_parallel_none(command) == FALSE

\* _execute: "Commands that can run in parallel", handled and returned from
\* before lock_created is looked at
can_run_in_parallel(command) == command = "check-updates"

\* _execute, up to the branch on lock_created
Execute(p) ==
    /\ pc[p] = "execute"
    /\ IF can_run_in_parallel(cmd[p])
       THEN \E dev \in BOOLEAN, catalog \in CliCatalogs :
              LET res == check_updates(arg[p], dev, catalog, sentinels)
              IN  /\ out' = [out EXCEPT ![p] =
                                IF res.raised THEN @ ELSE Append(@, Payload(res.d))]
                  /\ Exit(p, IF res.raised THEN "crashed" ELSE "done")
       ELSE IF lock_created_truthy(lockCreated[p])
       THEN /\ out' = [out EXCEPT ![p] = Append(@, Line("RUNNING"))]
            /\ pc' = [pc EXCEPT ![p] = "running"]
            /\ UNCHANGED lockFile
       ELSE /\ out' = [out EXCEPT ![p] = Append(@, Line("ALREADY RUNNING!"))]
            /\ Exit(p, "already_running")
    /\ UNCHANGED <<cmd, arg, lockCreated, fsvars, libvars, purevars>>

\* _execute: the command's branch inside the locked section
Running(p) ==
    /\ pc[p] = "running"
    /\ CASE cmd[p] = "update" ->
              \* args.current_version, args.stable: the update parser defines neither
              /\ Exit(p, "crashed")
              /\ UNCHANGED fsvars
         [] cmd[p] = "restore" ->
              \E o \in RemoveOutcomes, rcCreate \in ExitCodes, rmtreeOk \in BOOLEAN :
                LET r == restore(World, arg[p], o.rc, o.remains, rcCreate, rmtreeOk)
                IN  /\ envs' = r.w.envs
                    /\ sentinels' = r.w.sentinels
                    /\ stateFile' = r.w.stateFile
                    /\ IF r.raised THEN Exit(p, "crashed")
                       ELSE pc' = [pc EXCEPT ![p] = "sleep"] /\ UNCHANGED lockFile
         [] OTHER ->
              /\ pc' = [pc EXCEPT ![p] = "sleep"]
              /\ UNCHANGED <<lockFile, fsvars>>
    /\ UNCHANGED <<cmd, arg, lockCreated, out, libvars, purevars>>

\* _execute: time.sleep(5); lock.unlock()
Unlock(p) ==
    /\ pc[p] = "sleep"
    /\ IF lockFile = LockHeld(p)
       THEN lockFile' = LockAbsent /\ pc' = [pc EXCEPT ![p] = "done"]
       ELSE lockFile' = lockFile /\ pc' = [pc EXCEPT ![p] = "crashed"]
    /\ UNCHANGED <<cmd, arg, lockCreated, out, fsvars, libvars, purevars>>

InitCli ==
    /\ lockFile \in {LockAbsent, LockCorrupt("corrupt_link"), LockCorrupt("corrupt_file")}
    /\ pc = [p \in Procs |-> "idle"]
    /\ cmd = [p \in Procs |-> "none"]
    /\ arg = [p \in Procs |-> NoVersion]
    /\ lockCreated = [p \in Procs |-> "None"]
    /\ out = [p \in Procs |-> <<>>]

Init ==
    /\ envs = {get_prefix_by_name(v) : v \in CliVersions}
    /\ sentinels = CliVersions
    /\ stateFile = NoSnapshot
    /\ InitCli
    /\ InitLibIdle
    /\ InitPureIdle

Next ==
    \E p \in Procs :
        \/ Start(p)
        \/ Lock(p)
        \/ Recover(p)
        \/ Execute(p)
        \/ Running(p)
        \/ Unlock(p)

Spec == Init /\ [][Next]_vars

(***************************************************************************)
(* utils.versions: a helper applied to one argument                        *)
(***************************************************************************)
\* test_sort_versions: the input and the expected result
TestList == <<V041, V041dev1, V011, V041dev0, V041a1>>
ExpectedList == <<V011, V041dev0, V041dev1, V041a1, V041>>

\* the strings of test_sort_versions
S011 == <<"0", ".", "1", ".", "1">>
S041 == <<"0", ".", "4", ".", "1">>
S041dev0 == S041 \o <<"d", "e", "v", "0">>
S041dev1 == S041 \o <<"d", "e", "v", "1">>
S041a1 == S041 \o <<"a", "1">>

\* test_is_stable_version: the arguments and the expected results
StableTable ==
    {[arg |-> Str(S04), expected |-> TRUE], [arg |-> Str(S0415), expected |-> TRUE],
     [arg |-> Str(S0415rc1), expected |-> FALSE], [arg |-> Str(S0415dev0), expected |-> FALSE],
     [arg |-> Str(S0415beta), expected |-> FALSE], [arg |-> Str(S0415alfa), expected |-> FALSE],
     [arg |-> Tuple(T04), expected |-> TRUE], [arg |-> Tuple(T0415), expected |-> TRUE],
     [arg |-> Tuple(T0415rc1), expected |-> FALSE], [arg |-> Tuple(T0415beta), expected |-> FALSE]}

ListInputs ==
    {[kind |-> "list", versions |-> l] :
        l \in UNION {[1..n -> TestVersions] : n \in 0..MaxLen} \cup {TestList}}

WrittenInputs ==
    {e.arg : e \in StableTable}
    \cup {Str(chars) : chars \in {S011, S041, S041dev0, S041dev1, S041a1}}

SortVersions ==
    /\ fn = "none"
    /\ input.kind = "list"
    /\ fn' = "sort_versions"
    /\ output' = [kind |-> "list", versions |-> sort_versions(input.versions)]
    /\ UNCHANGED <<input, fsvars, clivars, libvars>>

IsStableVersion ==
    /\ fn = "none"
    /\ input.kind \in {"str", "tuple"}
    /\ fn' = "is_stable_version"
    /\ output' = [kind |-> "bool", v |-> is_stable_version_written(input)]
    /\ UNCHANGED <<input, fsvars, clivars, libvars>>

InitVersions ==
    /\ envs = {}
    /\ sentinels = {}
    /\ stateFile = NoSnapshot
    /\ InitCliIdle
    /\ InitLibIdle
    /\ fn = "none"
    /\ input \in ListInputs \cup WrittenInputs
    /\ output = NoOutput

NextVersions ==
    \/ SortVersions
    \/ IsStableVersion

SpecVersions == InitVersions /\ [][NextVersions]_vars

(***************************************************************************)
(* Properties of the command line (specification Spec)                     *)
(***************************************************************************)
MutatingCommands == {"update", "restore", "check-launch-clean", "clean"}

EnteredLockedSection(p) == Len(out[p]) > 0 /\ out[p][1].text = "RUNNING"

\* C1: of the invocations contending for the lock at most one is inside the
\* locked section at any time; the others report AlreadyRunning.
C1_MutualExclusion == Cardinality({p \in Procs : pc[p] \in LockedSection}) <= 1

\* C2: a mutating subcommand whose lock() returned false prints
\* "ALREADY RUNNING!", calls no action and ends as AlreadyRunning, leaving the
\* environments, the Sentinels, the snapshot and the lock artifact as they were.
C2_NoLockNoAction ==
    [][\A p \in Procs :
          (/\ pc[p] = "execute"
           /\ pc'[p] # "execute"
           /\ cmd[p] \in MutatingCommands
           /\ lockCreated[p] = "False")
          => /\ pc'[p] = "already_running"
             /\ out'[p] = <<Line("ALREADY RUNNING!")>>
             /\ UNCHANGED <<envs, sentinels, stateFile, lockFile>>]_vars

C2_Witness ==
    \E p \in Procs :
        /\ pc[p] = "already_running"
        /\ cmd[p] = "restore"
        /\ lockCreated[p] = "False"
        /\ \E q \in Procs \ {p} : pc[q] \in LockedSection

\* C3: an invocation that entered the locked section has released the lock
\* when it terminates, whether its operation succeeded, failed or raised.
C3_LockReleasedOnExit ==
    \A p \in Procs :
        (pc[p] \in Terminal /\ EnteredLockedSection(p)) => lockFile # LockStale(p)

\* C4: a check-updates invocation never acquires the lock: the artifact never
\* names a check-updates process as its holder.
C4_CheckUpdatesNeverLocks ==
    \A p \in Procs :
        (cmd[p] = "check-updates" /\ pc[p] \notin {"idle", "main"})
        => lockFile \notin {LockHeld(p), LockStale(p)}

\* C17: an invocation whose lock() raised on a corrupted artifact clears the
\* artifact and still carries out its operation; it does not end by refusing it.
C17_CorruptLockProceeds ==
    \A p \in Procs :
        (pc[p] \in Terminal /\ lockCreated[p] = "None" /\ cmd[p] \in MutatingCommands)
        => /\ pc[p] # "already_running"
           /\ \A i \in 1..Len(out[p]) : out[p][i] # Line("ALREADY RUNNING!")

\* the payloads an invocation has written
Payloads(p) == {i \in 1..Len(out[p]) : out[p][i].text = "JSON"}

\* C18: an invocation that has ended has written exactly one payload, and no
\* error raised by an action has escaped it as an unhandled exception.
C18_OnePayload ==
    \A p \in Procs :
        pc[p] \in Terminal => /\ pc[p] # "crashed"
                              /\ Cardinality(Payloads(p)) = 1

\* C28: whatever lock() gave (true, false, or an error), the step of a
\* check-updates invocation past the lock runs the resolution and writes its
\* result as the payload, or ends with the error the resolution raised; it
\* writes nothing else, so never "ALREADY RUNNING!", and it is not refused.
C28_CheckUpdatesNeverRefused ==
    [][\A p \in Procs :
          (cmd[p] = "check-updates" /\ pc[p] = "execute" /\ pc'[p] # "execute") =>
              \E dev \in BOOLEAN, catalog \in CliCatalogs :
                  LET res == check_updates(arg[p], dev, catalog, sentinels)
                  IN  IF res.raised
                      THEN pc'[p] = "crashed" /\ out'[p] = out[p]
                      ELSE /\ pc'[p] = "done"
                           /\ out'[p] = Append(out[p], Payload(res.d))
                           /\ out'[p] = <<Payload(res.d)>>]_vars

\* a check-updates invocation that found the lock held by another live
\* invocation has written its payload and ended normally
C28_Witness ==
    \E p \in Procs :
        /\ cmd[p] = "check-updates"
        /\ pc[p] = "done"
        /\ lockCreated[p] = "False"
        /\ Cardinality(Payloads(p)) = 1
        /\ \E q \in Procs \ {p} : lockFile = LockHeld(q)

(***************************************************************************)
(* Properties of actions.py (specification SpecActions)                    *)
(***************************************************************************)
Returned(op) == phase = "returned" /\ last.op = op

\* latest_version as check_updates resolved it for the last call
LatestOf(call) ==
    check_updates(call.version, call.dev, call.catalog, call.preSentinels).d.latest_version

Logged(op) == \E i \in 1..Len(last.log) : last.log[i].op = op

\* the final relevant exit code of the last update
FinalCode == IF last.rcAtomic = 0 THEN 0 ELSE last.rcPinned

\* C5: update writes a Sentinel, and only the one of latest_version, exactly
\* when the final relevant exit code is 0 (the atomic create's code if it is 0,
\* else the code of the pinned package's create in the fallback); after a
\* non-zero final code the Sentinels are as before.
C5_SentinelIffSuccess ==
    Returned("update") =>
        LET written == Logged("create_sentinel")
        IN  /\ written <=> (~last.raised /\ FinalCode = 0)
            /\ written =>
                 /\ \A i \in 1..Len(last.log) :
                       last.log[i].op = "create_sentinel"
                       => last.log[i].prefix.version = LatestOf(last)
                 /\ sentinels = last.preSentinels \cup {LatestOf(last)}
            /\ ~written => sentinels = last.preSentinels

C5_Witness ==
    /\ Returned("update")
    /\ last.rcAtomic # 0
    /\ last.rcPinned = 0
    /\ LatestOf(last) \in sentinels \ last.preSentinels

BothFailed == Returned("update") /\ ~last.raised /\ last.rcAtomic # 0 /\ last.rcPinned # 0

C7_PluginFailureReported ==
    (/\ Returned("update")
     /\ ~last.raised
     /\ last.rcAtomic # 0
     /\ last.rcPinned = 0
     /\ \E i \in 1..Len(last.rcPlugins) : last.rcPlugins[i] # 0)
    => /\ LatestOf(last) \in sentinels
       /\ last.result.kind = "dict"

\* C8: when restore quarantined the environment and the recreate failed, the
\* quarantined copy is still on disk; it is deleted only after a recreate that
\* succeeded.
C8_QuarantineKeptOnFailure ==
    (Returned("restore") /\ Logged("rename") /\ Logged("create"))
    => /\ last.rcCreate # 0
          => BrokenName(get_prefix_by_name(last.version)) \in envs
       /\ Logged("rmtree") => last.rcCreate = 0

\* the resolution check_updates_clean_and_launch worked with
CleanResolution == check_updates(NoVersion, last.dev, last.catalog, last.preSentinels)

C10_CheckUpdatesIdempotent ==
    Returned("check_updates") =>
        LET again == check_updates_call(World, last.version, last.dev, last.catalog)
        IN  /\ again.raised = last.raised
            /\ again.result = last.result
            /\ envs = last.preEnvs
            /\ sentinels = last.preSentinels
            /\ stateFile = last.preState

C10_Witness ==
    /\ Returned("check_updates")
    /\ ~last.raised
    /\ last.result.d.update
    /\ ~last.result.d.installed
    /\ Len(last.result.d.found_versions) > 0

\* the place of a version in the order test_sort_versions expects
Place(v) == CHOOSE i \in 1..Len(ExpectedList) : ExpectedList[i] = v

Count(s, x) == Cardinality({i \in 1..Len(s) : s[i] = x})

\* the result dictionary of the last check_updates
ResolvedBy == Returned("check_updates") /\ ~last.raised

\* C13: previous_version is the element right before current_version in the
\* filtered, sorted list, and empty when current_version is not in the list.
C13_PreviousVersion ==
    ResolvedBy =>
        LET d == last.result.d
            av == d.available_versions
        IN  /\ d.current_version \notin Range(av) => d.previous_version = NoVersion
            /\ \A i \in 2..Len(av) :
                  av[i] = d.current_version => d.previous_version = av[i - 1]
            /\ d.previous_version # NoVersion
                  => \E i \in 2..Len(av) :
                        av[i] = d.current_version /\ av[i - 1] = d.previous_version

\* the place of a version of the catalog in package-version order, 0 for ""
OrderOf(v) == IF v = NoVersion THEN 0 ELSE Place(v)

\* C14: latest_version is the last element of the filtered, sorted list, or
\* empty when the list is empty; update says whether latest_version is above
\* current_version, and is false, with no error, when latest_version is empty.
C14_LatestAndUpdate ==
    Returned("check_updates") =>
        /\ last.raised <=> last.catalog = Unavailable
        /\ ~last.raised =>
              LET d == last.result.d
                  av == d.available_versions
              IN  /\ d.latest_version = IF av = <<>> THEN NoVersion ELSE av[Len(av)]
                  /\ \A i \in 1..Len(av) : OrderOf(av[i]) <= OrderOf(d.latest_version)
                  /\ d.update <=> OrderOf(d.latest_version) > OrderOf(d.current_version)
                  /\ d.latest_version = NoVersion => ~d.update

C14_Witness ==
    /\ ResolvedBy
    /\ Len(last.catalog) > 0
    /\ last.result.d.latest_version = NoVersion
    /\ ~last.result.d.update

\* C15: without dev, available_versions holds no qualified version and every
\* final version of the catalog, in ascending order; current_version is the
\* caller's, also when it is a dev build.
C15_DevFilter ==
    (ResolvedBy /\ ~last.dev) =>
        LET d == last.result.d
            av == d.available_versions
        IN  /\ \A i \in 1..Len(av) : av[i].q = "" /\ av[i] \in Range(last.catalog)
            /\ \A v \in Range(last.catalog) : v.q = "" => Count(av, v) = 1
            /\ \A i, j \in 1..Len(av) : i < j => OrderOf(av[i]) < OrderOf(av[j])
            /\ d.current_version = last.version

C15_Witness ==
    /\ ResolvedBy
    /\ ~last.dev
    /\ last.version = V041dev0
    /\ V041dev0 \in Range(last.catalog)
    /\ last.result.d.available_versions = <<V011, V041>>
    /\ last.result.d.current_version = V041dev0

\* the exit code of the backend job op of the last call
ExitCodeOf(op) == last.log[CHOOSE i \in 1..Len(last.log) : last.log[i].op = op].rc

\* C16: remove deletes the prefix directly exactly when the backend removal
\* reported failure; after a backend removal that exited 0 nothing is deleted
\* directly and remove ends normally.
C16_RemoveFallback ==
    Returned("remove") =>
        /\ Logged("remove")
        /\ Logged("rmtree") <=> ExitCodeOf("remove") # 0
        /\ ExitCodeOf("remove") = 0 => ~last.raised

\* C19: whatever the backend removal, the quarantine rename and the deletion
\* of the quarantined copy did, restore goes on to the recreate step and
\* returns the exit code of the create job.
C19_RestoreReturnsCreateCode ==
    Returned("restore") =>
        /\ Logged("create")
        /\ ~last.raised
        /\ last.result = ResInt(last.rcCreate)

\* the places in the log of the last call where the backend was asked to
\* create an environment or to install into one
MutatingPlaces == {i \in 1..Len(last.log) : last.log[i].op \in {"create", "install"}}

\* the places in the log of the last call where the snapshot was saved
SnapshotPlaces == {i \in 1..Len(last.log) : last.log[i].op = "save_state"}

\* C21: in update the snapshot (package list, dev flag, plugin list) is saved
\* before the first create or install of the backend, and whatever the exit
\* codes of the creates and installs that follow, the snapshot saved is the
\* one the state file holds when update returns.
C21_SnapshotBeforeMutation ==
    (Returned("update") /\ ~last.raised) =>
        /\ MutatingPlaces # {}
        /\ \E i \in SnapshotPlaces :
              /\ SnapshotPlaces = {i}
              /\ \A j \in MutatingPlaces : i < j
              /\ stateFile.packages = last.log[i].pkgs
        /\ stateFile = [saved |-> TRUE, packages |-> last.packages, dev |-> last.dev,
                        plugins |-> last.plugins]

\* an update whose creates both failed, and one of whose plugin installs
\* failed, left the snapshot it saved
C21_Witness ==
    /\ BothFailed
    /\ \E k \in 1..Len(last.rcPlugins) : last.rcPlugins[k] # 0
    /\ ~last.preState.saved
    /\ stateFile.saved
    /\ stateFile.plugins = last.plugins
    /\ last.plugins # {}

\* C22: update first issues the batched create (the pinned package plus all
\* filtered plugins, at the prefix of latest_version); it issues nothing more
\* when that create exits 0, and when it exits non-zero it goes on with one
\* create of the pinned package alone followed by one install per filtered
\* plugin, in list order, whatever the exit codes of the installs.
C22_AtomicThenOneByOne ==
    (Returned("update") /\ ~last.raised) =>
        LET filtered == SelectSeq(last.packages, LAMBDA name : name \in last.plugins)
            prefix == get_prefix_by_name(LatestOf(last))
            atomic == Entry("create", prefix, <<PackageName>> \o filtered, last.rcAtomic)
            pinned == Entry("create", prefix, <<PackageName>>, last.rcPinned)
            installs == [k \in 1..Len(filtered) |->
                            Entry("install", prefix, <<filtered[k]>>, last.rcPlugins[k])]
            issued == SelectSeq(last.log, LAMBDA e : e.op \in {"create", "install"})
        IN  issued = IF last.rcAtomic = 0 THEN <<atomic>>
                     ELSE <<atomic, pinned>> \o installs

\* the batched create failed, the first plugin's install failed too, and the
\* second plugin was installed all the same
C22_Witness ==
    /\ Returned("update") /\ ~last.raised
    /\ last.rcAtomic # 0
    /\ Len(last.rcPlugins) = 2
    /\ last.rcPlugins[1] # 0
    /\ \E i \in MutatingPlaces :
          last.log[i].op = "install" /\ last.log[i].pkgs = <<"plugB">>

\* C23: when the catalog cannot be reached, update ends with the error before
\* anything was done: no snapshot is saved, no job is issued to the backend,
\* no Sentinel is written or removed, and the filesystem is as it was.
C23_UnresolvedUpdateDoesNothing ==
    (Returned("update") /\ last.catalog = Unavailable) =>
        /\ last.raised
        /\ last.log = <<>>
        /\ envs = last.preEnvs
        /\ sentinels = last.preSentinels
        /\ stateFile = last.preState

\* an update of an installation that has environments and no snapshot yet
\* met an unreachable catalog
C23_Witness ==
    /\ Returned("update")
    /\ last.catalog = Unavailable
    /\ last.raised
    /\ last.preEnvs # {}
    /\ ~stateFile.saved

\* C24: in restore and in remove a recursive deletion is applied only to a
\* path carrying the "-broken" suffix that the same call renamed to it
\* before; nothing is deleted recursively under its original prefix name.
C24_QuarantineBeforeDeletion ==
    (Returned("restore") \/ Returned("remove")) =>
        \A i \in 1..Len(last.log) :
            last.log[i].op = "rmtree" =>
                /\ last.log[i].prefix.suffix = "-broken"
                /\ \E j \in 1..(i - 1) :
                      /\ last.log[j].op = "rename"
                      /\ BrokenName(last.log[j].prefix) = last.log[i].prefix

C29_NeverTargetsCurrentEnvironment ==
    (Returned("update") /\ ~last.raised) =>
        /\ \A i \in MutatingPlaces :
              last.log[i].prefix = get_prefix_by_name(LatestOf(last))
        /\ get_prefix_by_name(LatestOf(last)) # get_prefix_by_name(last.version)

\* C30: a previous_version that check_updates reports is below
\* current_version in package-version order; when current_version is the
\* lowest element of the filtered list, the latest version is not reported as
\* previous.
C30_PreviousBelowCurrent ==
    (ResolvedBy /\ last.result.d.previous_version # NoVersion) =>
        VersionLess(last.result.d.previous_version, last.result.d.current_version)

\* C31: whatever the exit codes of the creates and installs, update writes at
\* most one Sentinel, and only that of latest_version; every Sentinel that was
\* there is still there; update issues no backend removal, no rename and no
\* recursive deletion, and every environment directory that was there is
\* still there.
C31_UpdateFrame ==
    Returned("update") =>
        LET latest_version == LatestOf(last)
            written == SelectSeq(last.log, LAMBDA e : e.op = "create_sentinel")
            undone == SelectSeq(last.log, LAMBDA e :
                          e.op \in {"remove_sentinel", "remove", "rename", "rmtree"})
        IN  /\ Len(written) <= 1
            /\ written # <<>> => written[1].prefix = get_prefix_by_name(latest_version)
            /\ undone = <<>>
            /\ last.preSentinels \subseteq sentinels
            /\ sentinels \subseteq last.preSentinels \cup {latest_version}
            /\ sentinels # last.preSentinels => written # <<>>
            /\ last.preEnvs \subseteq envs

\* an update over an installation that has the Sentinel of an older version
\* wrote the Sentinel of latest_version and left the older one
C31_Witness ==
    /\ Returned("update")
    /\ ~last.raised
    /\ Logged("create_sentinel")
    /\ last.preSentinels # {}
    /\ LatestOf(last) \notin last.preSentinels
    /\ sentinels = last.preSentinels \cup {LatestOf(last)}

\* C32: when the batched create exits non-zero, the next job update issues is
\* the create of the pinned package at the same prefix; nothing is removed,
\* renamed or deleted in between, so what the failed attempt left at the
\* prefix is there when the second create runs, and the prefix is there when
\* update returns.
C32_FallbackOverLeftovers ==
    (Returned("update") /\ ~last.raised /\ last.rcAtomic # 0) =>
        LET prefix == get_prefix_by_name(LatestOf(last))
            issued == SelectSeq(last.log, LAMBDA e :
                          e.op \in {"create", "install", "remove", "rename", "rmtree"})
        IN  /\ Len(issued) >= 2
            /\ issued[1] = Entry("create", prefix, issued[1].pkgs, last.rcAtomic)
            /\ issued[2] = Entry("create", prefix, <<PackageName>>, last.rcPinned)
            /\ \A k \in 3..Len(issued) : issued[k].op = "install"
            /\ prefix \in envs

\* the batched create failed at a prefix that did not exist before the run,
\* and the second create ran at that prefix, which the failed attempt had left
C32_Witness ==
    /\ Returned("update") /\ ~last.raised
    /\ last.rcAtomic # 0
    /\ get_prefix_by_name(LatestOf(last)) \notin last.preEnvs
    /\ get_prefix_by_name(LatestOf(last)) \in envs
    /\ Cardinality({i \in 1..Len(last.log) :
                       /\ last.log[i].op = "create"
                       /\ last.log[i].prefix = get_prefix_by_name(LatestOf(last))}) = 2

(***************************************************************************)
(* Properties of utils.versions (specification SpecVersions)               *)
(***************************************************************************)
\* C11: sort_versions returns a permutation of its input in ascending
\* package-version order: a lower numeric release first, and of one numeric
\* release a qualified version before the final one, dev before alpha; the list
\* of test_sort_versions is sorted as the test expects.
C11_SortVersions ==
    fn = "sort_versions" =>
        LET in == input.versions
            res == output.versions
        IN  /\ Len(res) = Len(in)
            /\ \A v \in TestVersions : Count(res, v) = Count(in, v)
            /\ \A i, j \in 1..Len(res) :
                  /\ i < j => Place(res[i]) <= Place(res[j])
                  /\ (res[i].rel = <<0, 1, 1>> /\ res[j].rel = <<0, 4, 1>>) => i < j
                  /\ (res[i].rel = res[j].rel /\ res[i].q # "" /\ res[j].q = "") => i < j
                  /\ (res[i].rel = res[j].rel /\ res[i].q = "dev" /\ res[j].q = "a") => i < j
            /\ in = TestList => res = ExpectedList

C11_Witness ==
    /\ fn = "sort_versions"
    /\ input.versions = TestList
    /\ output.versions = ExpectedList

HasLetter(chars) == \E i \in 1..Len(chars) : ~IsDigit(chars[i]) /\ chars[i] # "."

\* C12: is_stable_version is true exactly for a version made of numeric
\* components only, given as a string or as a tuple of components; it answers
\* as test_is_stable_version expects, and for a string as the qualifier of the
\* parsed version says.
C12_IsStableVersion ==
    fn = "is_stable_version" =>
        /\ \A e \in StableTable : e.arg = input => output.v = e.expected
        /\ input.kind = "str" =>
              /\ output.v = ~HasLetter(input.chars)
              /\ output.v = is_stable_version(parse_version(input.chars))
        /\ input.kind = "tuple" =>
              output.v = (\A i \in 1..Len(input.parts) : ~HasLetter(input.parts[i]))

C12_Witness ==
    /\ fn = "is_stable_version"
    /\ input = Tuple(T0415rc1)
    /\ output.v = FALSE

====
